---------------------------- MODULE Spec2Model ----------------------------
(***************************************************************************)
(* Model of src/src/app/processor.py: validate_input_message and           *)
(* evaluate_strategy, driven by a caller that submits messages one at a    *)
(* time (validate, then evaluate when validation returned).                *)
(*                                                                         *)
(* Python values are tagged records, so that values of different Python    *)
(* types are comparable and unequal.  Dict objects live in a heap and are  *)
(* passed by reference, so that "returns the same object" and "mutates in  *)
(* place" are things the model can tell apart from "returns an equal copy".*)
(***************************************************************************)
EXTENDS Integers, Sequences, FiniteSets, TLC

VARIABLES
    inbox,      \* the messages the caller has still to submit (dict contents)
    heap,       \* the dict objects allocated so far: reference -> contents
    pc,         \* where the caller is: idle, submitted, validated, rejected, evaluated, failed
    message,    \* reference of the dict passed as `message` in the current call (0: none)
    raw,        \* contents of that dict when the caller submitted it
    schema_ok,  \* what validate_message_schema(message) returned in the current call
    validated,  \* reference returned by validate_input_message (0: none)
    exception,  \* exception the caller received from the current call, or NoException
    output,     \* reference returned by evaluate_strategy (0: none)
    log,        \* records emitted through logger, oldest first
    history     \* completed evaluate_strategy calls: input and output contents

vars == <<inbox, heap, pc, message, raw, schema_ok, validated, exception, output, log, history>>

---------------------------------------------------------------------------
(* Python values *)

PyStr(s) == [str |-> s]
PyInt(i) == [int |-> i]
PyNone == [none |-> TRUE]
PyRef(r) == [ref |-> r]

NoException == [type |-> "none", args |-> <<>>]

\* ValueError("Invalid message format")
ValueError(args) == [type |-> "ValueError", args |-> args]

\* the format error of line 33
FormatError == ValueError(<<PyStr("Invalid message format")>>)

\* what message[key] raises for a key the dict does not have
KeyError(key) == [type |-> "KeyError", args |-> <<PyStr(key)>>]

\* dict.get(key, default)
dict_get(d, key, default) == IF key \in DOMAIN d THEN d[key] ELSE default

\* {**a, **b}: the keys of both, b's value where both have the key
dict_merge(a, b) == [k \in (DOMAIN a) \cup (DOMAIN b) |-> IF k \in DOMAIN b THEN b[k] ELSE a[k]]

\* one call of logger.<level>(msg, *args)
logger(lg, level, msg, args) == Append(lg, [level |-> level, msg |-> msg, args |-> args])

---------------------------------------------------------------------------
(* validate_input_message *)

\* The outcome of a call: the heap and the log after it, and either the
\* returned reference (raised = NoException) or the exception raised.
Returned(h, lg, ref) == [heap |-> h, log |-> lg, ret |-> ref, raised |-> NoException]

Raised(h, lg, exc) == [heap |-> h, log |-> lg, ret |-> 0, raised |-> exc]

\* validate_input_message with the test of line 31 inverted
validate_input_message_inverted(h, m, ok, lg) ==
    LET lg1 == logger(lg, "DEBUG", "Validating message schema...", <<>>)
    IN  IF ok
        THEN Raised(h,
                    logger(lg1, "ERROR", "Invalid message schema: %s", <<PyRef(m)>>),
                    ValueError(<<PyStr("Invalid message format")>>))
        ELSE Returned(h, lg1, m)

\* validate_input_message whose error log leaves the rejected message out
validate_input_message_unlogged(h, m, ok, lg) ==
    LET lg1 == logger(lg, "DEBUG", "Validating message schema...", <<>>)
    IN  IF ~ok
        THEN Raised(h,
                    logger(lg1, "ERROR", "Invalid message schema", <<>>),
                    ValueError(<<PyStr("Invalid message format")>>))
        ELSE Returned(h, lg1, m)

\* `ok` is what the injected validate_message_schema(message) answers.
validate_input_message(h, m, ok, lg) ==
    LET lg1 == logger(lg, "DEBUG", "Validating message schema...", <<>>)
    IN  IF ~ok
        THEN Raised(h,
                    logger(lg1, "ERROR", "Invalid message schema: %s", <<PyRef(m)>>),
                    ValueError(<<PyStr("Invalid message format")>>))
        ELSE Returned(h, lg1, m)

---------------------------------------------------------------------------
(* evaluate_strategy *)

symbol(msg) == dict_get(msg, "symbol", PyStr("UNKNOWN"))

\* votes without the factor_signal lookup
votes_without_factor(msg) ==
    << dict_get(msg, "alpha_signal", PyNone),
       dict_get(msg, "momentum_signal", PyNone),
       dict_get(msg, "sentiment_signal", PyNone),
       dict_get(msg, "composite_signal", PyNone),
       dict_get(msg, "beta_signal", PyNone) >>

votes(msg) ==
    << dict_get(msg, "alpha_signal", PyNone),
       dict_get(msg, "momentum_signal", PyNone),
       dict_get(msg, "sentiment_signal", PyNone),
       dict_get(msg, "composite_signal", PyNone),
       dict_get(msg, "beta_signal", PyNone),
       dict_get(msg, "factor_signal", PyNone) >>

\* the tuple of line 60
AffirmativeTokens == {PyStr("BUY"), PyStr("INCLUDE"), PyStr("OVEREXPOSED"), PyStr("REVERT_UP")}

\* vote_count over a list in which alpha_signal is read a second time
vote_count_alpha_twice(msg) ==
    LET vs == Append(votes(msg), dict_get(msg, "alpha_signal", PyNone))
    IN  Cardinality({i \in DOMAIN vs : vs[i] \in AffirmativeTokens})

\* vote_count kept in a module-level counter that is never reset: each call
\* adds its matches to the total the previous call reported
vote_count_accumulated(msg) ==
    LET vs == votes(msg)
    IN  Cardinality({i \in DOMAIN vs : vs[i] \in AffirmativeTokens})
        + (IF history = <<>> THEN 0
           ELSE history[Len(history)].output["strategy_votes"].int)

\* sum(1 for v in votes if v in (...))
vote_count(msg) ==
    LET vs == votes(msg)
    IN  Cardinality({i \in DOMAIN vs : vs[i] \in AffirmativeTokens})

\* decision with an exclusive threshold
decision_exclusive(count) == IF count > 3 THEN "BUY" ELSE "HOLD"

decision(count) == IF count >= 3 THEN "BUY" ELSE "HOLD"

result(msg) ==
    [final_strategy_decision |-> PyStr(decision(vote_count(msg))),
     strategy_votes |-> PyInt(vote_count(msg))]

\* the merge the other way round: {**result, **message}
enriched_message_wins(msg) == dict_merge(result(msg), msg)

\* the merge restricted to the keys evaluate_strategy knows
enriched_known_keys(msg) ==
    LET known == {"symbol", "alpha_signal", "momentum_signal", "sentiment_signal",
                  "composite_signal", "beta_signal", "factor_signal"}
    IN  dict_merge([k \in (DOMAIN msg) \cap known |-> msg[k]], result(msg))

\* return {**message, **result}
enriched(msg) == dict_merge(msg, result(msg))

\* evaluate_strategy reading message["symbol"] instead of message.get(...)
evaluate_strategy_subscript(h, m, lg) ==
    LET msg == h[m]
        lg1 == logger(lg, "INFO", "Evaluating strategy for %s", <<symbol(msg)>>)
        h1  == Append(h, result(msg))
        lg2 == logger(lg1, "DEBUG", "Final strategy decision for %s: %s",
                      <<symbol(msg), PyRef(Len(h1))>>)
        h2  == Append(h1, enriched(msg))
    IN  IF "symbol" \in DOMAIN msg
        THEN Returned(h2, lg2, Len(h2))
        ELSE Raised(h, lg, KeyError("symbol"))

\* evaluate_strategy doing message.update(result) and returning message
evaluate_strategy_in_place(h, m, lg) ==
    LET msg == h[m]
        lg1 == logger(lg, "INFO", "Evaluating strategy for %s", <<symbol(msg)>>)
        h1  == Append(h, result(msg))
        lg2 == logger(lg1, "DEBUG", "Final strategy decision for %s: %s",
                      <<symbol(msg), PyRef(Len(h1))>>)
        h2  == [h1 EXCEPT ![m] = enriched(msg)]
    IN  Returned(h2, lg2, m)

\* The call allocates two dicts: `result`, then the returned merge.
evaluate_strategy(h, m, lg) ==
    LET msg == h[m]
        lg1 == logger(lg, "INFO", "Evaluating strategy for %s", <<symbol(msg)>>)
        h1  == Append(h, result(msg))
        lg2 == logger(lg1, "DEBUG", "Final strategy decision for %s: %s",
                      <<symbol(msg), PyRef(Len(h1))>>)
        h2  == Append(h1, enriched(msg))
    IN  Returned(h2, lg2, Len(h2))

---------------------------------------------------------------------------
(* The messages the caller submits *)

\* largest number of distinct values the six signal fields of one message hold
MaxDistinct == 2

\* largest number of messages one caller submits in a row
MaxCalls == 4

SignalKeys ==
    {"alpha_signal", "momentum_signal", "sentiment_signal",
     "composite_signal", "beta_signal", "factor_signal"}

DecisionKeys == {"final_strategy_decision", "strategy_votes"}

\* what a signal field may hold: the four affirmative tokens, two other
\* sentinels and null
SignalValues == AffirmativeTokens \cup {PyStr("SELL"), PyStr("HOLD"), PyNone}

\* marks a key the message does not have
Absent == [absent |-> TRUE]

ToDict(f) == [k \in {x \in DOMAIN f : f[x] # Absent} |-> f[k]]

SignalParts ==
    {ToDict(f) : f \in {g \in [SignalKeys -> SignalValues \cup {Absent}] :
                          Cardinality({g[k] : k \in SignalKeys} \ {Absent}) <= MaxDistinct}}

\* the keys evaluate_strategy does not count: symbol, incoming decision
\* fields (in and out of range), an unknown key
OtherParts ==
    {ToDict([symbol |-> s, final_strategy_decision |-> d, strategy_votes |-> v, note |-> n]) :
        s \in {Absent, PyStr("AAPL")},
        d \in {Absent, PyStr("SELL"), PyStr("BUY")},
        v \in {Absent, PyInt(99), PyInt(0 - 1)},
        n \in {Absent, PyStr("BUY")}}

\* the scenarios of the specification, and one with incoming decision fields
Scenarios ==
    { ToDict([symbol |-> PyStr("AAPL"), alpha_signal |-> PyStr("BUY"),
              momentum_signal |-> PyStr("BUY"), sentiment_signal |-> PyStr("BUY")]),
      ToDict([symbol |-> PyStr("MSFT"), alpha_signal |-> PyStr("SELL"),
              momentum_signal |-> PyStr("HOLD")]),
      ToDict([alpha_signal |-> PyStr("INCLUDE"), beta_signal |-> PyStr("OVEREXPOSED")]),
      ToDict([composite_signal |-> PyStr("REVERT_UP"), factor_signal |-> PyStr("SELL"),
              momentum_signal |-> PyNone,
              final_strategy_decision |-> PyStr("BUY"), strategy_votes |-> PyInt(99)]) }

Messages ==
    {dict_merge(s, o) : s \in SignalParts, o \in {ToDict([symbol |-> Absent]),
                                                 ToDict([symbol |-> PyStr("AAPL"),
                                                         final_strategy_decision |-> PyStr("SELL"),
                                                         strategy_votes |-> PyInt(99)])}}
    \cup {dict_merge(s, o) : s \in Scenarios, o \in OtherParts}

RECURSIVE SeqsUpTo(_, _)
SeqsUpTo(S, n) ==
    IF n = 0 THEN {<<>>}
    ELSE LET shorter == SeqsUpTo(S, n - 1)
         IN  shorter \cup {Append(q, x) : q \in {t \in shorter : Len(t) = n - 1}, x \in S}

---------------------------------------------------------------------------
(* The caller *)

Init ==
    /\ inbox \in {<<m>> : m \in Messages} \cup SeqsUpTo(Scenarios, MaxCalls)
    /\ heap = <<>>
    /\ pc = "idle"
    /\ message = 0
    /\ raw = ToDict([symbol |-> Absent])
    /\ schema_ok = TRUE
    /\ validated = 0
    /\ exception = NoException
    /\ output = 0
    /\ log = <<>>
    /\ history = <<>>

\* the caller builds the next message as a new dict
Submit ==
    /\ pc \in {"idle", "rejected", "evaluated", "failed"}
    /\ inbox # <<>>
    /\ heap' = Append(heap, Head(inbox))
    /\ message' = Len(heap) + 1
    /\ raw' = Head(inbox)
    /\ inbox' = Tail(inbox)
    /\ pc' = "submitted"
    /\ validated' = 0
    /\ exception' = NoException
    /\ output' = 0
    /\ UNCHANGED <<schema_ok, log, history>>

\* validate_input_message(message)
Validate ==
    /\ pc = "submitted"
    /\ \E ok \in BOOLEAN :
        LET r == validate_input_message(heap, message, ok, log)
        IN  /\ schema_ok' = ok
            /\ heap' = r.heap
            /\ log' = r.log
            /\ validated' = r.ret
            /\ exception' = r.raised
            /\ pc' = IF r.raised = NoException THEN "validated" ELSE "rejected"
    /\ UNCHANGED <<inbox, message, raw, output, history>>

\* evaluate_strategy(validated)
Evaluate ==
    /\ pc = "validated"
    /\ LET r == evaluate_strategy(heap, validated, log)
       IN  /\ heap' = r.heap
           /\ log' = r.log
           /\ output' = r.ret
           /\ exception' = r.raised
           /\ pc' = IF r.raised = NoException THEN "evaluated" ELSE "failed"
           /\ history' = IF r.raised = NoException
                         THEN Append(history, [input |-> heap[validated],
                                               output |-> r.heap[r.ret]])
                         ELSE history
    /\ UNCHANGED <<inbox, message, raw, schema_ok, validated>>

Next == Submit \/ Validate \/ Evaluate

Spec == Init /\ [][Next]_vars

---------------------------------------------------------------------------
(* Properties *)

\* the number of signal fields of m holding an affirmative token
AffirmativeCount(m) ==
    Cardinality({k \in SignalKeys \cap DOMAIN m :
                    \/ m[k] = PyStr("BUY")
                    \/ m[k] = PyStr("INCLUDE")
                    \/ m[k] = PyStr("OVEREXPOSED")
                    \/ m[k] = PyStr("REVERT_UP")})

\* C1 (validator gate): validate_input_message fails with the format error
\* exactly when the schema check answered false; when it answered true the
\* call returns the very dict it was given, whose contents are the submitted
\* ones, no decision field added.
C1_ValidatorGate ==
    pc \in {"validated", "rejected"} =>
        /\ (pc = "rejected") <=> ~schema_ok
        /\ (exception = FormatError) <=> ~schema_ok
        /\ ~schema_ok => validated = 0
        /\ schema_ok =>
            /\ exception = NoException
            /\ validated = message
            /\ heap[validated] = raw

\* a message without decision fields was returned by the validator after an
\* earlier message had been rejected
C1_Witness ==
    /\ pc = "validated"
    /\ validated = message
    /\ DOMAIN heap[validated] \cap DecisionKeys = {}
    /\ DOMAIN raw # {}
    /\ \E i \in DOMAIN log : log[i].level = "ERROR"

\* C2 as stated: the format error raised for a rejected message carries
\* that message among its arguments.
C2_ErrorCarriesMessage ==
    pc = "rejected" =>
        \E i \in DOMAIN exception.args :
            \/ exception.args[i] = PyRef(message)
            \/ exception.args[i] = [dict |-> raw]

\* C2 amended: the error raised for a rejected message is a ValueError whose
\* only argument is the fixed text "Invalid message format"; the rejected
\* message itself is the argument of the error-level log record emitted just
\* before the raise.
C2_ErrorTextOnlyMessageLogged ==
    pc = "rejected" =>
        /\ exception.type = "ValueError"
        /\ exception.args = <<PyStr("Invalid message format")>>
        /\ log # <<>>
        /\ log[Len(log)].level = "ERROR"
        /\ log[Len(log)].args = <<PyRef(message)>>
        /\ heap[message] = raw

C2_Witness ==
    /\ pc = "rejected"
    /\ ~schema_ok
    /\ exception = FormatError
    /\ SignalKeys \cap DOMAIN raw # {}

\* C3: strategy_votes of the output is the number of the six signal fields of
\* the message that hold an affirmative token; absent fields, null, other
\* values and other keys count nothing.
C3_VoteCount ==
    pc = "evaluated" =>
        heap[output]["strategy_votes"] = PyInt(AffirmativeCount(raw))

\* a message with a counted field, an uncounted signal value, a symbol, an
\* incoming strategy_votes and an unknown key holding "BUY" was evaluated
C3_Witness ==
    /\ pc = "evaluated"
    /\ AffirmativeCount(raw) >= 1
    /\ \E k \in SignalKeys \cap DOMAIN raw : raw[k] \notin AffirmativeTokens
    /\ SignalKeys \ DOMAIN raw # {}
    /\ {"symbol", "strategy_votes", "note"} \subseteq DOMAIN raw
    /\ raw["note"] = PyStr("BUY")
    /\ heap[output]["strategy_votes"] # raw["strategy_votes"]

\* C4 (threshold law): the decision is "BUY" exactly when strategy_votes is
\* at least 3, and "HOLD" otherwise.
C4_ThresholdLaw ==
    pc = "evaluated" =>
        LET o == heap[output]
        IN  /\ o["final_strategy_decision"] \in {PyStr("BUY"), PyStr("HOLD")}
            /\ (o["final_strategy_decision"] = PyStr("BUY"))
                   <=> (o["strategy_votes"].int >= 3)

\* exactly three votes gave "BUY"
C4_Witness ==
    /\ pc = "evaluated"
    /\ heap[output]["strategy_votes"] = PyInt(3)
    /\ heap[output]["final_strategy_decision"] = PyStr("BUY")

\* C5 (vote bound): strategy_votes of the output is an integer from 0 to 6,
\* also when the message came with an out-of-range strategy_votes.
C5_VoteBound ==
    pc = "evaluated" =>
        \E v \in 0..6 : heap[output]["strategy_votes"] = PyInt(v)

\* six votes, from a message that came with strategy_votes = 99
C5_Witness ==
    /\ pc = "evaluated"
    /\ "strategy_votes" \in DOMAIN raw
    /\ raw["strategy_votes"] = PyInt(99)
    /\ heap[output]["strategy_votes"] = PyInt(6)

\* C6 (merge preservation): the output has exactly the keys of the message
\* plus the two decision keys, and every other key keeps its value.
C6_MergePreservation ==
    pc = "evaluated" =>
        LET o == heap[output]
        IN  /\ DOMAIN o = (DOMAIN raw) \cup DecisionKeys
            /\ \A k \in (DOMAIN raw) \ DecisionKeys : o[k] = raw[k]

\* a message with a symbol, signals and an unknown key was evaluated
C6_Witness ==
    /\ pc = "evaluated"
    /\ {"symbol", "note"} \subseteq DOMAIN raw
    /\ SignalKeys \cap DOMAIN raw # {}
    /\ DecisionKeys \cap DOMAIN raw = {}

\* C7 (precedence on collision): when the message already has a decision
\* key, the output holds the computed decision and count under both keys.
C7_DecisionPrecedence ==
    (pc = "evaluated" /\ DecisionKeys \cap DOMAIN raw # {}) =>
        LET o == heap[output]
            n == AffirmativeCount(raw)
        IN  /\ o["strategy_votes"] = PyInt(n)
            /\ o["final_strategy_decision"] = PyStr(IF n >= 3 THEN "BUY" ELSE "HOLD")

\* a message that came with decision "BUY" and 99 votes left with "HOLD"
C7_Witness ==
    /\ pc = "evaluated"
    /\ DecisionKeys \subseteq DOMAIN raw
    /\ raw["final_strategy_decision"] = PyStr("BUY")
    /\ raw["strategy_votes"] = PyInt(99)
    /\ heap[output]["final_strategy_decision"] = PyStr("HOLD")
    /\ heap[output]["strategy_votes"] # PyInt(99)

\* C8 (determinism, statelessness): any two completed calls of
\* evaluate_strategy on equal messages returned equal outputs, whatever was
\* validated or evaluated before or between them.
C8_Determinism ==
    \A i, j \in DOMAIN history :
        history[i].input = history[j].input => history[i].output = history[j].output

\* the same message was evaluated twice with a different one in between
C8_Witness ==
    /\ Len(history) >= 3
    /\ history[1].input = history[3].input
    /\ history[2].input # history[1].input
    /\ history[2].output["strategy_votes"] # history[1].output["strategy_votes"]
    /\ \E i \in DOMAIN log : log[i].level = "ERROR"

\* C9: evaluate_strategy never raises; without a symbol key it logs
\* "UNKNOWN", and it returns an enriched dict also when signals are absent.
C9_NoFailure ==
    /\ pc # "failed"
    /\ pc = "evaluated" =>
        /\ exception = NoException
        /\ output \in DOMAIN heap
        /\ DecisionKeys \subseteq DOMAIN heap[output]
        /\ Len(log) >= 2
        /\ log[Len(log) - 1].level = "INFO"
        /\ log[Len(log) - 1].args =
               <<IF "symbol" \in DOMAIN raw THEN raw["symbol"] ELSE PyStr("UNKNOWN")>>

\* the empty message was evaluated
C9_Witness ==
    /\ pc = "evaluated"
    /\ DOMAIN raw = {}
    /\ log[Len(log) - 1].args = <<PyStr("UNKNOWN")>>
    /\ heap[output]["strategy_votes"] = PyInt(0)

\* C10: neither call changes the dict it was given: after either, the
\* message has the contents it was submitted with, and evaluate_strategy
\* returns another dict than the one it was given.
C10_NoInPlaceMutation ==
    /\ pc \in {"validated", "rejected", "evaluated"} => heap[message] = raw
    /\ pc = "evaluated" => (output # message /\ output # validated)

\* the output differs from the message, which is as submitted
C10_Witness ==
    /\ pc = "evaluated"
    /\ heap[message] = raw
    /\ DecisionKeys \cap DOMAIN heap[message] = {}
    /\ DecisionKeys \subseteq DOMAIN heap[output]
    /\ \E i \in DOMAIN log : log[i].level = "ERROR"

===========================================================================
